---- MODULE Spec2Model ----
(***************************************************************************)
(* A state-machine model of src/index.py: the tilt-controlled coin game.   *)
(*                                                                         *)
(* One frame of main()'s loop (lines 243-450) is modelled as               *)
(*   BeginFrame            lines 244-245  (clock.tick, now = time.time())  *)
(*   KeyDown / Quit        lines 248-273  (one iteration of the event loop)*)
(*   Update                lines 275-450  (serial, keys, gameplay, draw)   *)
(* and the reader thread's loop body as ReaderPush (lines 68-73).          *)
(*                                                                         *)
(* Time is counted in tenths of a second, so SWITCH_DEBOUNCE = 0.5 s is 5, *)
(* POWERUP_DURATION = 6.0 s is 60 and GAME_DURATION = 60 s is 600.         *)
(* Obstacle speeds are counted in tenths of a pixel per update.            *)
(***************************************************************************)
EXTENDS Integers, Sequences, FiniteSets, TLC

(***************************************************************************)
(* CONFIG, lines 15-36, and the literals of main().                        *)
(***************************************************************************)
WIDTH == 900
HEIGHT == 600
AX_POS_THRESHOLD == 2000
AX_NEG_THRESHOLD == -2000
AY_POS_THRESHOLD == 2000
AY_NEG_THRESHOLD == -2000
SWITCH_DEBOUNCE == 5
SHAKE_THRESHOLD == 15000
BALL_RADIUS == 25
BALL_SPEED == 5
COIN_RADIUS == 15
POWERUP_DURATION == 60
OBSTACLE_COUNT == 3
OBSTACLE_MIN_SPEED == 20
OBSTACLE_MAX_SPEED == 40
GAME_DURATION == 600
QUEUE_MAXLEN == 100
POWER_RADIUS_BONUS == 8
NUM_CHARACTERS == 3
OBSTACLE_MIN_W == 30
OBSTACLE_MAX_W == 70
OBSTACLE_MIN_H == 30
OBSTACLE_MAX_H == 50
SPECIAL_SCORE == 5
BTN_PRESSED == 1

STATE_MENU == "MENU"
STATE_PLAY == "PLAY"
STATE_PAUSE == "PAUSE"
STATE_GAMEOVER == "GAMEOVER"
States == {STATE_MENU, STATE_PLAY, STATE_PAUSE, STATE_GAMEOVER}

K_RETURN == "K_RETURN"
K_ESCAPE == "K_ESCAPE"
K_p == "K_p"
K_SPACE == "K_SPACE"
K_LEFT == "K_LEFT"
K_RIGHT == "K_RIGHT"
K_UP == "K_UP"
K_DOWN == "K_DOWN"
EventKeys == {K_RETURN, K_ESCAPE, K_p, K_SPACE}

(***************************************************************************)
(* Bounds of the model.                                                    *)
(***************************************************************************)
MaxFrames == 3
MaxEvents == 2
MaxPush == 2
MaxKeyFrames == 11
MaxFields == 6

(***************************************************************************)
(* Arithmetic helpers.                                                     *)
(***************************************************************************)
Abs(n) == IF n < 0 THEN -n ELSE n
Min(a, b) == IF a < b THEN a ELSE b
Max(a, b) == IF a > b THEN a ELSE b
Clamp(lo, hi, v) == Max(lo, Min(hi, v))
Sq(n) == n * n

\* int(): the conversion of a float to an integer truncates toward zero.
\* The argument is a number of tenths.
TruncTenths(n) == IF n >= 0 THEN n \div 10 ELSE -((-n) \div 10)

(***************************************************************************)
(* Telemetry lines.  A line is the sequence of its comma-separated fields; *)
(* a field is an integer literal, some other text, or blank.               *)
(***************************************************************************)
IntTok(n) == [kind |-> "int", val |-> n]
TextTok == [kind |-> "text", val |-> 0]
BlankTok == [kind |-> "blank", val |-> 0]

NoResult == [ok |-> FALSE, ax |-> 0, ay |-> 0, az |-> 0, has_btn |-> FALSE, btn |-> 0]

\* parse_parts with a failure to convert the fourth field failing the line.
parse_parts_strict(parts) ==
  IF Len(parts) < 3 THEN NoResult
  ELSE IF \E i \in 1..Min(4, Len(parts)) : parts[i].kind # "int" THEN NoResult
  ELSE [ok |-> TRUE,
        ax |-> parts[1].val, ay |-> parts[2].val, az |-> parts[3].val,
        has_btn |-> Len(parts) >= 4,
        btn |-> IF Len(parts) >= 4 THEN parts[4].val ELSE 0]

\* parse_serial_line, lines 135-158.
\* Lines 143-158, for the non-empty fields of the line.
parse_parts(parts) ==
  IF Len(parts) < 3 THEN NoResult
  ELSE IF \E i \in 1..3 : parts[i].kind # "int" THEN NoResult
  ELSE [ok |-> TRUE,
        ax |-> parts[1].val, ay |-> parts[2].val, az |-> parts[3].val,
        has_btn |-> (Len(parts) >= 4 /\ parts[4].kind = "int"),
        btn |-> IF Len(parts) >= 4 /\ parts[4].kind = "int"
                THEN parts[4].val ELSE 0]

\* Line 142: the fields that are not empty after strip().
parse_serial_line(line) ==
  parse_parts(SelectSeq(line, LAMBDA t : t.kind # "blank"))

(***************************************************************************)
(* random.randint(lo, hi) and random.uniform(lo, hi): a draw is named by   *)
(* the place u of its result in the range, in percent: 0 is lo, 100 is hi. *)
(***************************************************************************)
PickInt(lo, hi, u) == lo + (u * (hi - lo)) \div 100
PickUniform(lo, hi, u) == lo + (u * (hi - lo)) \div 100

(***************************************************************************)
(* Pure steps of the game, each named after the code it models.            *)
(***************************************************************************)

\* SpawnObstacle with the position drawn over the whole screen, not over
\* the part that keeps the rectangle inside it.
SpawnObstacleWide(d) ==
  LET w == PickInt(OBSTACLE_MIN_W, OBSTACLE_MAX_W, d.fw)
      h == PickInt(OBSTACLE_MIN_H, OBSTACLE_MAX_H, d.fh)
  IN  [x |-> PickInt(0, WIDTH, d.fx),
       y |-> PickInt(0, HEIGHT, d.fy),
       w |-> w, h |-> h,
       vx |-> d.sx * PickUniform(OBSTACLE_MIN_SPEED, OBSTACLE_MAX_SPEED, d.fvx),
       vy |-> d.sy * PickUniform(OBSTACLE_MIN_SPEED, OBSTACLE_MAX_SPEED, d.fvy)]

\* An obstacle as init_game creates it (lines 220-226) from one draw of the
\* random numbers: d.fw, d.fh, d.fx, d.fy, d.fvx, d.fvy place each result in
\* its range, d.sx and d.sy are the results of random.choice([-1, 1]).
SpawnObstacle(d) ==
  LET w == PickInt(OBSTACLE_MIN_W, OBSTACLE_MAX_W, d.fw)
      h == PickInt(OBSTACLE_MIN_H, OBSTACLE_MAX_H, d.fh)
  IN  [x |-> PickInt(0, WIDTH - w, d.fx),
       y |-> PickInt(0, HEIGHT - h, d.fy),
       w |-> w, h |-> h,
       vx |-> d.sx * PickUniform(OBSTACLE_MIN_SPEED, OBSTACLE_MAX_SPEED, d.fvx),
       vy |-> d.sy * PickUniform(OBSTACLE_MIN_SPEED, OBSTACLE_MAX_SPEED, d.fvy)]

\* The coin position drawn at lines 212-213 and 346-347.
SpawnCoinX(u) == PickInt(COIN_RADIUS, WIDTH - COIN_RADIUS, u)
SpawnCoinY(u) == PickInt(COIN_RADIUS, HEIGHT - COIN_RADIUS, u)

\* ObstacleUpdate reversing the velocity at an edge without moving the
\* rectangle back inside.
ObstacleUpdateNoClamp(o) ==
  LET x1 == TruncTenths(10 * o.x + o.vx)
      y1 == TruncTenths(10 * o.y + o.vy)
      hitx == x1 < 0 \/ x1 + o.w > WIDTH
      hity == y1 < 0 \/ y1 + o.h > HEIGHT
  IN  [x |-> x1, y |-> y1, w |-> o.w, h |-> o.h,
       vx |-> IF hitx THEN -o.vx ELSE o.vx,
       vy |-> IF hity THEN -o.vy ELSE o.vy]

\* Obstacle.update, lines 101-111.  rect.x is an integer: adding the float
\* velocity to it stores the truncated sum.
ObstacleUpdate(o) ==
  LET x1 == TruncTenths(10 * o.x + o.vx)
      y1 == TruncTenths(10 * o.y + o.vy)
      hitx == x1 < 0 \/ x1 + o.w > WIDTH
      hity == y1 < 0 \/ y1 + o.h > HEIGHT
  IN  [x |-> IF hitx THEN Max(0, Min(x1, WIDTH - o.w)) ELSE x1,
       y |-> IF hity THEN Max(0, Min(y1, HEIGHT - o.h)) ELSE y1,
       w |-> o.w, h |-> o.h,
       vx |-> IF hitx THEN -o.vx ELSE o.vx,
       vy |-> IF hity THEN -o.vy ELSE o.vy]

\* BroadReject measuring from the rectangle's left and top, not its centre.
BroadRejectFromCorner(bx, by, r, o) ==
  \/ 2 * Abs(bx - o.x) > o.w + 2 * r
  \/ 2 * Abs(by - o.y) > o.h + 2 * r

\* Lines 359-364: the broad-phase rejection.  rect.centerx is x + w // 2;
\* the comparison with the float w/2 + r is made on doubled integers.
BroadReject(bx, by, r, o) ==
  \/ 2 * Abs(bx - (o.x + o.w \div 2)) > o.w + 2 * r
  \/ 2 * Abs(by - (o.y + o.h \div 2)) > o.h + 2 * r

\* Lines 367-370: the distance from the ball centre to the closest point of
\* the rectangle is below the radius.  d < r for an integer r and d the
\* square root of an integer is d*d < r*r.
NarrowHit(bx, by, r, o) ==
  LET closest_x == Max(o.x, Min(bx, o.x + o.w))
      closest_y == Max(o.y, Min(by, o.y + o.h))
  IN  Sq(bx - closest_x) + Sq(by - closest_y) < Sq(r)

\* Lines 359-375 for one obstacle: the collision the code acts on.
Collides(bx, by, r, o) == ~BroadReject(bx, by, r, o) /\ NarrowHit(bx, by, r, o)

\* Lines 330-331: dist < radius + COIN_RADIUS.
CoinNear(bx, by, cx, cy, r) == Sq(bx - cx) + Sq(by - cy) < Sq(r + COIN_RADIUS)

\* Lines 334 and 342: the points a coin gives.
CoinScore(special) == IF special THEN SPECIAL_SCORE ELSE 1

\* Line 351: now >= power_ends_at.
PowerExpired(t, ends_at) == t >= ends_at

\* RoundTimeUp with > for >=.
RoundTimeUpLate(t, start) == t - start > GAME_DURATION

\* Lines 378-379: elapsed >= GAME_DURATION.
RoundTimeUp(t, start) == t - start >= GAME_DURATION

\* SwitchAllowed with >= for >.
SwitchAllowedEq(t, ls) == t - ls >= SWITCH_DEBOUNCE

\* Lines 299 and 304: (now - last_switch) > SWITCH_DEBOUNCE.
SwitchAllowed(t, ls) == t - ls > SWITCH_DEBOUNCE

\* SensorDx with >= and <= for > and <.
SensorDxInclusive(ax) ==
  IF ax >= AX_POS_THRESHOLD THEN BALL_SPEED
  ELSE IF ax <= AX_NEG_THRESHOLD THEN -BALL_SPEED ELSE 0

\* Lines 288-291 and 292-295: the sensor's contribution to one axis.
SensorDx(ax) ==
  IF ax > AX_POS_THRESHOLD THEN BALL_SPEED
  ELSE IF ax < AX_NEG_THRESHOLD THEN -BALL_SPEED ELSE 0
SensorDy(ay) ==
  IF ay > AY_POS_THRESHOLD THEN -BALL_SPEED
  ELSE IF ay < AY_NEG_THRESHOLD THEN BALL_SPEED ELSE 0

\* SensorMove with the deltas reset for every line, parsed or not.
SensorMoveReset(parsed, old_dx, old_dy) ==
  IF parsed.ok THEN [dx |-> SensorDx(parsed.ax), dy |-> SensorDy(parsed.ay)]
  ELSE [dx |-> 0, dy |-> 0]

\* Lines 286-295: a parsed sample resets the deltas and sets them; without
\* a parsed sample the deltas keep the value the last frame left.
SensorMove(parsed, old_dx, old_dy) ==
  IF parsed.ok THEN [dx |-> SensorDx(parsed.ax), dy |-> SensorDy(parsed.ay)]
  ELSE [dx |-> old_dx, dy |-> old_dy]

\* Lines 309-317: every held arrow key adds one step.
KeyMove(keys, dx, dy) ==
  [dx |-> dx - (IF K_LEFT \in keys THEN BALL_SPEED ELSE 0)
             + (IF K_RIGHT \in keys THEN BALL_SPEED ELSE 0),
   dy |-> dy - (IF K_UP \in keys THEN BALL_SPEED ELSE 0)
             + (IF K_DOWN \in keys THEN BALL_SPEED ELSE 0)]

\* Lines 298-306: the button branch, then the shake branch.
SwitchStep(parsed, t, cc, ls) ==
  LET byBtn == parsed.ok /\ parsed.has_btn /\ parsed.btn = BTN_PRESSED
               /\ SwitchAllowed(t, ls)
      cc1 == IF byBtn THEN (cc + 1) % NUM_CHARACTERS ELSE cc
      ls1 == IF byBtn THEN t ELSE ls
      byShake == parsed.ok /\ ~byBtn /\ Abs(parsed.az) > SHAKE_THRESHOLD
                 /\ SwitchAllowed(t, ls1)
  IN  [cc |-> IF byShake THEN (cc1 + 1) % NUM_CHARACTERS ELSE cc1,
       ls |-> IF byShake THEN t ELSE ls1]

\* NextState with ENTER also resuming a paused game.
NextStateLoose(st, key) ==
  CASE st = STATE_MENU /\ key = K_RETURN -> STATE_PLAY
    [] st = STATE_PLAY /\ key = K_p -> STATE_PAUSE
    [] st = STATE_PLAY /\ key = K_ESCAPE -> STATE_MENU
    [] st = STATE_PAUSE /\ key \in {K_p, K_RETURN} -> STATE_PLAY
    [] st = STATE_PAUSE /\ key = K_ESCAPE -> STATE_MENU
    [] st = STATE_GAMEOVER /\ key = K_RETURN -> STATE_PLAY
    [] st = STATE_GAMEOVER /\ key = K_ESCAPE -> STATE_MENU
    [] OTHER -> st

\* Lines 252-273: the state a KEYDOWN event leads to.
NextState(st, key) ==
  CASE st = STATE_MENU /\ key = K_RETURN -> STATE_PLAY
    [] st = STATE_PLAY /\ key = K_p -> STATE_PAUSE
    [] st = STATE_PLAY /\ key = K_ESCAPE -> STATE_MENU
    [] st = STATE_PAUSE /\ key = K_p -> STATE_PLAY
    [] st = STATE_PAUSE /\ key = K_ESCAPE -> STATE_MENU
    [] st = STATE_GAMEOVER /\ key = K_RETURN -> STATE_PLAY
    [] st = STATE_GAMEOVER /\ key = K_ESCAPE -> STATE_MENU
    [] OTHER -> st

\* StartsRound with the resume from pause starting a round as well.
StartsRoundOnResume(st, key) ==
  \/ st \in {STATE_MENU, STATE_GAMEOVER} /\ key = K_RETURN
  \/ st = STATE_PAUSE /\ key = K_p

\* Lines 255 and 271: the events that call init_game().
StartsRound(st, key) == st \in {STATE_MENU, STATE_GAMEOVER} /\ key = K_RETURN

\* Lines 256-257: ESC in the menu ends the main loop.
QuitsLoop(st, key) == st = STATE_MENU /\ key = K_ESCAPE

(***************************************************************************)
(* The state.                                                              *)
(***************************************************************************)
VARIABLES
  wall,           \* what time.time() returns
  now,            \* main: now, sampled at line 245
  pc,             \* main: "idle" between frames, "events" inside one,
                  \* "pop"/"skip" after the test of line 90, "closing"
                  \* inside stop(), "exited", "crashed"
  running,        \* main: running
  state,          \* main: state
  current_char,   \* main: current_char
  last_switch,    \* main: last_switch
  radius,         \* main: characters[i]["radius"]
  move_dx,        \* main: move_dx
  move_dy,        \* main: move_dy
  ball_x, ball_y, score, coin_x, coin_y, coin_special,
  power_active, power_ends_at, obstacles, start_time,
  queue,          \* SerialReader.queue: entries [id, line], oldest first
  ser_open,       \* SerialReader.ser is not None
  ser_closed,     \* SerialReader.ser.close() has closed the port
  reader_running, \* SerialReader.running
  rpc,            \* SerialReader.run: "start", "loop" (line 68), "poll" (70),
                  \* "read" (71), "sleep" (75), "error" (77), "done"
  \* history, read by the bounds and the properties only
  frames,         \* frames begun
  nevents,        \* events handled in the frame under way
  pushed,         \* lines the reader has pushed
  delivered,      \* what get_latest() has returned, in order: [id, newest],
                  \* newest the id of the last line pushed by then
  tested,         \* how many lines had been pushed when get_latest() last
                  \* tested the queue
  sample,         \* the line get_latest() returned in the frame under way,
                  \* as <<line>>; <<>> when it returned None or was not called
  switch_times,   \* the times (now) at which current_char changed
  last            \* the last step of the main loop: [op, from, key]

round == <<ball_x, ball_y, score, coin_x, coin_y, coin_special,
           power_active, power_ends_at, obstacles, start_time>>
chars == <<current_char, last_switch, radius>>
reader == <<queue, ser_open, ser_closed, reader_running, rpc, pushed>>
vars == <<wall, now, pc, running, state, chars, move_dx, move_dy, round,
          reader, frames, nevents, delivered, tested, switch_times, sample,
          last>>

Step(op, from, key) == [op |-> op, from |-> from, key |-> key]

(***************************************************************************)
(* init_game, lines 205-227.  dr is one draw of its random numbers         *)
(* (dr.coin for the coin, dr.obs[i] for obstacle i) and t the value of     *)
(* time.time() at line 227.                                                *)
(***************************************************************************)
init_game(dr, t) ==
  [ball_x |-> WIDTH \div 2,
   ball_y |-> HEIGHT \div 2,
   score |-> 0,
   coin_x |-> SpawnCoinX(dr.coin.fx),
   coin_y |-> SpawnCoinY(dr.coin.fy),
   coin_special |-> dr.coin.special,
   power_active |-> FALSE,
   power_ends_at |-> 0,
   obstacles |-> [i \in 1..OBSTACLE_COUNT |-> SpawnObstacle(dr.obs[i])],
   start_time |-> t]

SetRound(g) ==
  /\ ball_x' = g.ball_x
  /\ ball_y' = g.ball_y
  /\ score' = g.score
  /\ coin_x' = g.coin_x
  /\ coin_y' = g.coin_y
  /\ coin_special' = g.coin_special
  /\ power_active' = g.power_active
  /\ power_ends_at' = g.power_ends_at
  /\ obstacles' = g.obstacles
  /\ start_time' = g.start_time

\* The draws of init_game an environment E offers.
RoundDraws(E) == [coin : E.coins, obs : E.layouts]

(***************************************************************************)
(* The state when the loop at line 243 is first reached: main() lines      *)
(* 162-242 and SerialReader.__init__ lines 49-63.  The clock starts later  *)
(* than the debounce interval after 0.0, as any clock of an existing       *)
(* machine does.                                                           *)
(***************************************************************************)
StartClock == 2 * SWITCH_DEBOUNCE

\* The queue holding the lines of bl, oldest first, numbered as pushed.
Numbered(bl) == [i \in 1..Len(bl) |-> [id |-> i, line |-> bl[i]]]

InitOf(E) ==
  /\ wall = StartClock
  /\ now = StartClock
  /\ pc = "idle"
  /\ running = TRUE
  /\ state = STATE_MENU
  /\ current_char = 0
  /\ last_switch = 0
  /\ radius = [i \in 0..(NUM_CHARACTERS - 1) |-> BALL_RADIUS]
  /\ move_dx = 0
  /\ move_dy = 0
  /\ \E dr \in RoundDraws(E) :
       LET g == init_game(dr, StartClock)
       IN  /\ ball_x = g.ball_x
           /\ ball_y = g.ball_y
           /\ score = g.score
           /\ coin_x = g.coin_x
           /\ coin_y = g.coin_y
           /\ coin_special = g.coin_special
           /\ power_active = g.power_active
           /\ power_ends_at = g.power_ends_at
           /\ obstacles = g.obstacles
           /\ start_time = g.start_time
  /\ \E bl \in E.backlogs :
       /\ queue = Numbered(bl)
       /\ pushed = Len(bl)
  /\ ser_open \in E.serOpen
  /\ ser_closed = FALSE
  /\ reader_running = TRUE
  /\ rpc \in E.reader_at
  /\ frames = 0
  /\ nevents = 0
  /\ delivered = <<>>
  /\ tested = 0
  /\ sample = <<>>
  /\ switch_times = <<>>
  /\ last = Step("Init", STATE_MENU, "")

(***************************************************************************)
(* The main loop.                                                          *)
(***************************************************************************)

\* Lines 243-245: the loop condition, clock.tick and now = time.time().
BeginFrame(dt) ==
  /\ pc = "idle"
  /\ running
  /\ wall' = wall + dt
  /\ now' = wall + dt
  /\ pc' = "events"
  /\ frames' = frames + 1
  /\ nevents' = 0
  /\ sample' = <<>>
  /\ last' = Step("BeginFrame", state, "")
  /\ UNCHANGED <<running, state, chars, move_dx, move_dy, round, reader,
                 delivered, tested, switch_times>>

\* Lines 251-273: one KEYDOWN event.  init_game() reads the clock again, at
\* or after the frame's sample.
KeyDown(key, E) ==
  /\ pc = "events"
  /\ state' = NextState(state, key)
  /\ running' = (running /\ ~QuitsLoop(state, key))
  /\ IF StartsRound(state, key)
     THEN \E dr \in RoundDraws(E), late \in E.drifts :
            /\ wall' = wall + late
            /\ SetRound(init_game(dr, wall + late))
     ELSE UNCHANGED <<wall, round>>
  /\ nevents' = nevents + 1
  /\ last' = Step("KeyDown", state, key)
  /\ UNCHANGED <<now, pc, chars, move_dx, move_dy, reader, frames, delivered, tested,
                 switch_times, sample>>

\* Lines 249-250: the QUIT event.
Quit ==
  /\ pc = "events"
  /\ running' = FALSE
  /\ nevents' = nevents + 1
  /\ last' = Step("Quit", state, "QUIT")
  /\ UNCHANGED <<wall, now, pc, state, chars, move_dx, move_dy, round, reader,
                 frames, delivered, tested, switch_times, sample>>

\* PowerStep with the bonus added to the radius the character has.
PowerStepAdd(boost, t, pa, pe, rad, cc) ==
  LET pa1 == boost \/ pa
      pe1 == IF boost THEN t + POWERUP_DURATION ELSE pe
      rad1 == IF boost
              THEN [rad EXCEPT ![cc] = rad[cc] + POWER_RADIUS_BONUS]
              ELSE rad
      expire == pa1 /\ PowerExpired(t, pe1)
  IN  [active |-> pa1 /\ ~expire,
       ends_at |-> pe1,
       radius |-> IF expire THEN [rad1 EXCEPT ![cc] = BALL_RADIUS] ELSE rad1]

\* Lines 332-353: a special coin starts the power-up and enlarges the
\* current character, then the timeout check ends an expired power-up and
\* restores the current character's radius.
PowerStep(boost, t, pa, pe, rad, cc) ==
  LET pa1 == boost \/ pa
      pe1 == IF boost THEN t + POWERUP_DURATION ELSE pe
      rad1 == IF boost
              THEN [rad EXCEPT ![cc] = BALL_RADIUS + POWER_RADIUS_BONUS]
              ELSE rad
      expire == pa1 /\ PowerExpired(t, pe1)
  IN  [active |-> pa1 /\ ~expire,
       ends_at |-> pe1,
       radius |-> IF expire THEN [rad1 EXCEPT ![cc] = BALL_RADIUS] ELSE rad1]

\* Lines 320-381: the gameplay of a frame in STATE_PLAY, for the current
\* character cc and the deltas dx, dy.  (\E v \in {e} : ... names the value
\* of e once.)
PlayTick(cc, dx, dy, E) ==
  \E r0 \in {radius[cc]} :
  \E bx \in {Clamp(r0, WIDTH - r0, ball_x + dx)},
     by \in {Clamp(r0, HEIGHT - r0, ball_y + dy)} :
  \E near \in {CoinNear(bx, by, coin_x, coin_y, r0)} :
  \E pw \in {PowerStep(near /\ coin_special, now, power_active, power_ends_at,
                       radius, cc)},
     obs2 \in {[i \in 1..OBSTACLE_COUNT |-> ObstacleUpdate(obstacles[i])]} :
    /\ ball_x' = bx
    /\ ball_y' = by
    /\ IF near
       THEN /\ score' = score + CoinScore(coin_special)
            /\ \E c \in E.coins :
                 /\ coin_x' = SpawnCoinX(c.fx)
                 /\ coin_y' = SpawnCoinY(c.fy)
                 /\ coin_special' = c.special
       ELSE UNCHANGED <<score, coin_x, coin_y, coin_special>>
    /\ power_active' = pw.active
    /\ power_ends_at' = pw.ends_at
    /\ radius' = pw.radius
    /\ obstacles' = obs2
    /\ state' = IF \/ \E i \in 1..OBSTACLE_COUNT :
                         Collides(bx, by, pw.radius[cc], obs2[i])
                   \/ RoundTimeUp(now, start_time)
                THEN STATE_GAMEOVER ELSE state
    /\ UNCHANGED start_time

\* SerialReader.get_latest, lines 88-90: the newest entry, or none.
get_latest(q) == IF Len(q) > 0 THEN <<q[Len(q)]>> ELSE <<>>

\* get_latest() returning the newest line and leaving it in the queue.
QueueAfterPeek(q) == q

\* The deque after pop() has taken its newest entry.
QueueAfterPop(q) == SubSeq(q, 1, Len(q) - 1)

\* The update run in every state but Menu.
PlaysUnlessMenu(st) == st # STATE_MENU

\* Line 320: the round is updated in Play only.
Plays(st) == st = STATE_PLAY

\* Lines 277-450: the rest of the frame once get_latest() has returned
\* latest.  keys are the arrow keys held; a collected coin is respawned from
\* one of E's draws.
Frame(latest, keys, E) ==
  /\ \E parsed \in {IF latest # <<>> THEN parse_serial_line(latest[1].line)
                    ELSE NoResult} :
     \E sm \in {SensorMove(parsed, move_dx, move_dy)},
        sw \in {SwitchStep(parsed, now, current_char, last_switch)} :
     \E km \in {KeyMove(keys, sm.dx, sm.dy)} :
       /\ queue' = IF latest # <<>> THEN QueueAfterPop(queue) ELSE queue
       /\ delivered' = IF latest # <<>>
                       THEN Append(delivered, [id |-> latest[1].id, newest |-> pushed])
                       ELSE delivered
       /\ switch_times' = IF sw.cc # current_char THEN Append(switch_times, now)
                          ELSE switch_times
       /\ sample' = IF latest # <<>> THEN <<latest[1].line>> ELSE <<>>
       /\ move_dx' = km.dx
       /\ move_dy' = km.dy
       /\ current_char' = sw.cc
       /\ last_switch' = sw.ls
       /\ IF Plays(state)
          THEN PlayTick(sw.cc, km.dx, km.dy, E)
          ELSE UNCHANGED <<round, radius, state>>
  /\ pc' = "idle"
  /\ nevents' = 0
  /\ last' = Step("Update", state, "")
  /\ UNCHANGED <<wall, now, running, ser_open, ser_closed, reader_running, rpc,
                 pushed, frames, tested>>

\* Lines 276-450 with get_latest() as one step.
Update(keys, E) == pc = "events" /\ Frame(get_latest(queue), keys, E)

\* Line 90, first half: the truth test of self.queue.
TestQueue ==
  /\ pc = "events"
  /\ pc' = IF Len(queue) > 0 THEN "pop" ELSE "skip"
  /\ tested' = pushed
  /\ UNCHANGED <<wall, now, running, state, chars, move_dx, move_dy, round,
                 reader, frames, nevents, delivered, switch_times, sample, last>>

\* Line 90, second half, and the rest of the frame: self.queue.pop() when
\* the test found the queue non-empty, None otherwise.  pop() on an empty
\* deque raises IndexError, which nothing in main() catches.
UpdateTested(keys, E) ==
  /\ pc \in {"pop", "skip"}
  /\ IF pc = "pop" /\ Len(queue) = 0
     THEN /\ pc' = "crashed"
          /\ UNCHANGED <<wall, now, running, state, chars, move_dx, move_dy,
                         round, reader, frames, nevents, delivered, tested,
                         switch_times, sample, last>>
     ELSE Frame(IF pc = "pop" THEN <<queue[Len(queue)]>> ELSE <<>>, keys, E)

\* Lines 452-453 and SerialReader.stop, line 81: the loop has ended and
\* stop() clears the reader's flag.
Cleanup ==
  /\ pc = "idle"
  /\ ~running
  /\ pc' = "closing"
  /\ reader_running' = FALSE
  /\ last' = Step("Cleanup", state, "")
  /\ UNCHANGED <<wall, now, running, state, chars, move_dx, move_dy, round,
                 queue, ser_open, ser_closed, rpc, pushed, frames, nevents,
                 delivered, tested, switch_times, sample>>

\* SerialReader.stop, lines 82-86, and lines 454-455: close() when there is
\* a connection; an exception it raises is swallowed, the port then left
\* as it was.
CloseSerial ==
  /\ pc = "closing"
  /\ pc' = "exited"
  /\ \E closes \in BOOLEAN : ser_closed' = (ser_closed \/ (ser_open /\ closes))
  /\ UNCHANGED <<wall, now, running, state, chars, move_dx, move_dy, round,
                 queue, ser_open, reader_running, rpc, pushed, frames, nevents,
                 delivered, tested, switch_times, sample, last>>

(***************************************************************************)
(* The reader thread.                                                      *)
(***************************************************************************)

\* deque_append keeping the old entries of a full queue and dropping the
\* new one.
deque_append_keep_old(q, e) == IF Len(q) >= QUEUE_MAXLEN THEN q ELSE Append(q, e)

\* deque(maxlen=100).append, lines 55 and 73: a full queue drops its oldest
\* entry.
deque_append(q, e) ==
  IF Len(q) >= QUEUE_MAXLEN THEN Append(Tail(q), e) ELSE Append(q, e)

\* SerialReader.run, lines 68-73: one pass of the loop that reads a
\* non-empty line, as one step.
ReaderPush(line) ==
  /\ rpc = "loop"
  /\ ser_open
  /\ ~ser_closed
  /\ reader_running
  /\ queue' = deque_append(queue, [id |-> pushed + 1, line |-> line])
  /\ pushed' = pushed + 1
  /\ UNCHANGED <<wall, now, pc, running, state, chars, move_dx, move_dy, round,
                 ser_open, ser_closed, reader_running, rpc, frames, nevents,
                 delivered, tested, switch_times, sample, last>>

\* What the reader thread leaves alone.
main_vars == <<wall, now, pc, running, state, chars, move_dx, move_dy, round,
               frames, nevents, delivered, tested, switch_times, sample, last>>

\* The loop test with the flag ignored.
WhileRunningForever(flag) == "poll"

\* Line 68: `while self.running` enters the body or leaves the loop.
WhileRunning(flag) == IF flag THEN "poll" ELSE "done"

\* Lines 66-67: run() returns at once without a connection.
ReaderStart ==
  /\ rpc = "start"
  /\ rpc' = IF ser_open THEN "loop" ELSE "done"
  /\ UNCHANGED <<main_vars, queue, ser_open, ser_closed, reader_running,
                 pushed>>

\* Line 68: the test of the flag, between two read attempts.
ReaderTest ==
  /\ rpc = "loop"
  /\ rpc' = WhileRunning(reader_running)
  /\ UNCHANGED <<main_vars, queue, ser_open, ser_closed, reader_running,
                 pushed>>

\* Line 70: in_waiting says there are bytes, says there are none, or
\* raises; on a closed port it raises.
ReaderPoll ==
  /\ rpc = "poll"
  /\ \E to \in (IF ser_closed THEN {"error"} ELSE {"read", "sleep", "error"}) :
       rpc' = to
  /\ UNCHANGED <<main_vars, queue, ser_open, ser_closed, reader_running,
                 pushed>>

\* Lines 71-73: readline() returns within its timeout; a line that is not
\* empty after strip() is appended.  <<>> is the empty line.
ReaderRead(line) ==
  /\ rpc = "read"
  /\ ~ser_closed
  /\ rpc' = "loop"
  /\ IF line = <<>>
     THEN UNCHANGED <<queue, pushed>>
     ELSE /\ queue' = deque_append(queue, [id |-> pushed + 1, line |-> line])
          /\ pushed' = pushed + 1
  /\ UNCHANGED <<main_vars, ser_open, ser_closed, reader_running>>

\* Lines 71 and 76: readline() raises, as it does on a port closed under
\* it.
ReaderReadFails ==
  /\ rpc = "read"
  /\ rpc' = "error"
  /\ UNCHANGED <<main_vars, queue, ser_open, ser_closed, reader_running,
                 pushed>>

\* Lines 74-75: nothing waiting, sleep 5 ms.
ReaderSleep ==
  /\ rpc = "sleep"
  /\ rpc' = "loop"
  /\ UNCHANGED <<main_vars, queue, ser_open, ser_closed, reader_running,
                 pushed>>

\* Lines 76-78: the exception is printed, sleep 100 ms, back to the test.
ReaderError ==
  /\ rpc = "error"
  /\ rpc' = "loop"
  /\ UNCHANGED <<main_vars, queue, ser_open, ser_closed, reader_running,
                 pushed>>

(***************************************************************************)
(* Environments: what the player, the device, the clock and the random     *)
(* generator do.  Every environment offers outcomes the code can meet.     *)
(***************************************************************************)
Line3(ax, ay, az) == <<IntTok(ax), IntTok(ay), IntTok(az)>>
Line4(ax, ay, az, btn) == <<IntTok(ax), IntTok(ay), IntTok(az), IntTok(btn)>>

\* Draws of one obstacle: over the screen centre; in the top left corner,
\* moving out of the screen; above the centre, coming down, six pixels and
\* thirty-four pixels away from the ball at the centre; in the bottom right
\* corner, as far right and down as the draw allows, moving out.
CentreObstacle == [fw |-> 50, fh |-> 50, fx |-> 50, fy |-> 50, fvx |-> 30,
                   fvy |-> 0, sx |-> 1, sy |-> -1]
CornerObstacle == [fw |-> 0, fh |-> 100, fx |-> 0, fy |-> 0, fvx |-> 35,
                   fvy |-> 100, sx |-> -1, sy |-> -1]
NearObstacle == [fw |-> 3, fh |-> 50, fx |-> 50, fy |-> 41, fvx |-> 0,
                 fvy |-> 100, sx |-> 1, sy |-> 1]
FarObstacle == [fw |-> 100, fh |-> 0, fx |-> 100, fy |-> 100, fvx |-> 35,
                fvy |-> 100, sx |-> 1, sy |-> 1]
AboveObstacle == [fw |-> 50, fh |-> 50, fx |-> 50, fy |-> 36, fvx |-> 0,
                  fvy |-> 100, sx |-> 1, sy |-> 1]
\* Draws of an obstacle that closes in on the ball at the centre: from the
\* right and from the left with an odd width, and towards a corner of the
\* rectangle from below right and from above left.
RightProbe == [fw |-> 3, fh |-> 50, fx |-> 55, fy |-> 50, fvx |-> 0,
               fvy |-> 0, sx |-> -1, sy |-> 1]
LeftProbe == [fw |-> 3, fh |-> 50, fx |-> 45, fy |-> 50, fvx |-> 25,
              fvy |-> 0, sx |-> 1, sy |-> -1]
DiagProbe == [fw |-> 20, fh |-> 80, fx |-> 55, fy |-> 59, fvx |-> 50,
              fvy |-> 0, sx |-> -1, sy |-> -1]
OddDiagProbe == [fw |-> 3, fh |-> 5, fx |-> 46, fy |-> 43, fvx |-> 25,
                 fvy |-> 0, sx |-> 1, sy |-> 1]
\* A draw of an obstacle eight pixels from the left edge, half way down,
\* moving left at 2.5 pixels a tick.
EdgeObstacle == [fw |-> 0, fh |-> 0, fx |-> 1, fy |-> 50, fvx |-> 25,
                 fvy |-> 0, sx |-> -1, sy |-> 1]
Layout(a, b, c) == [i \in 1..OBSTACLE_COUNT |-> CASE i = 1 -> a [] i = 2 -> b [] OTHER -> c]
CoinDraw(fx, fy, special) == [fx |-> fx, fy |-> fy, special |-> special]

\* The game flow: every key, the clock up to a whole round, no device.
FlowEnv ==
  [dts |-> {SWITCH_DEBOUNCE, POWERUP_DURATION, GAME_DURATION},
   drifts |-> {0, 1},
   keys |-> EventKeys,
   held |-> {{}},
   coins |-> {CoinDraw(50, 50, TRUE), CoinDraw(0, 0, FALSE)},
   layouts |-> {Layout(CornerObstacle, CornerObstacle, CornerObstacle),
                Layout(CornerObstacle, CentreObstacle, CornerObstacle),
                Layout(NearObstacle, CornerObstacle, FarObstacle)},
   serOpen |-> {FALSE},
   backlogs |-> {<<>>},
   reader_at |-> {"done"}]

\* Play with the device: the switch triggers alone, together and absent, a
\* tilt.
PlayEnv ==
  [dts |-> {SWITCH_DEBOUNCE, POWERUP_DURATION},
   drifts |-> {0},
   keys |-> {K_RETURN},
   held |-> {{}},
   lines |-> {Line4(0, 0, 0, BTN_PRESSED),
              Line3(0, 0, -(SHAKE_THRESHOLD + 1)),
              Line4(AX_POS_THRESHOLD + 1, 0, SHAKE_THRESHOLD + 1, BTN_PRESSED),
              Line4(0, AY_POS_THRESHOLD + 1, SHAKE_THRESHOLD, 0)},
   coins |-> {CoinDraw(50, 50, TRUE), CoinDraw(50, 50, FALSE), CoinDraw(0, 0, FALSE)},
   layouts |-> {Layout(CornerObstacle, CornerObstacle, CornerObstacle)},
   serOpen |-> {TRUE},
   backlogs |-> {<<>>},
   reader_at |-> {"loop"}]

\* Play with the keyboard alone, frame after frame.
KeysEnv ==
  [dts |-> {1},
   drifts |-> {0},
   keys |-> {K_RETURN},
   held |-> {{}, {K_UP}},
   coins |-> {CoinDraw(50, 0, TRUE), CoinDraw(50, 50, FALSE)},
   layouts |-> {Layout(CornerObstacle, CornerObstacle, CornerObstacle),
                Layout(CornerObstacle, AboveObstacle, CornerObstacle)},
   serOpen |-> {FALSE},
   backlogs |-> {<<>>},
   reader_at |-> {"done"}]

\* Obstacles closing in on a ball that stays at the centre, or bouncing off
\* the edges of the screen.
HitEnv ==
  [dts |-> {1},
   drifts |-> {0},
   keys |-> {K_RETURN},
   held |-> {{}},
   coins |-> {CoinDraw(50, 50, TRUE), CoinDraw(0, 0, FALSE)},
   layouts |-> {Layout(EdgeObstacle, CornerObstacle, FarObstacle),
                Layout(RightProbe, CornerObstacle, FarObstacle),
                Layout(LeftProbe, CornerObstacle, FarObstacle),
                Layout(DiagProbe, CornerObstacle, FarObstacle),
                Layout(OddDiagProbe, CornerObstacle, FarObstacle)},
   serOpen |-> {FALSE},
   backlogs |-> {<<>>},
   reader_at |-> {"done"}]

\* A reader ahead of the game: the queue starts one line short of full, or
\* full, with lines the game has not consumed.
Backlog(n) == [i \in 1..n |-> Line3(0, 0, 0)]
FifoEnv ==
  [dts |-> {1},
   drifts |-> {0},
   keys |-> {},
   held |-> {{}},
   lines |-> {Line3(0, 0, 0), Line4(0, 0, 0, 0)},
   coins |-> {CoinDraw(0, 0, FALSE)},
   layouts |-> {Layout(CornerObstacle, CornerObstacle, CornerObstacle)},
   serOpen |-> {TRUE},
   backlogs |-> {Backlog(QUEUE_MAXLEN - 1), Backlog(QUEUE_MAXLEN)},
   reader_at |-> {"loop"}]

\* Samples around the thresholds of both axes, and lines of up to MaxFields
\* fields, each field an integer (beyond the positive threshold, different
\* in every position), some other text, or blank.  The reader never queues
\* an empty line.
Around(neg, pos) == {neg - 1, neg, pos - 1, pos, pos + 1}
ThresholdLines ==
  {Line3(ax, ay, 0) : ax \in Around(AX_NEG_THRESHOLD, AX_POS_THRESHOLD),
                      ay \in Around(AY_NEG_THRESHOLD, AY_POS_THRESHOLD)}
FieldAt(i, k) ==
  CASE k = 0 -> BlankTok [] k = 1 -> TextTok [] OTHER -> IntTok(AX_POS_THRESHOLD + i)
FieldLines ==
  UNION {{[i \in 1..n |-> FieldAt(i, k[i])] : k \in [1..n -> 0..2]} :
         n \in 1..MaxFields} \ {<<BlankTok>>}
SamplesEnv ==
  [dts |-> {1},
   drifts |-> {0},
   keys |-> {},
   held |-> {{}},
   lines |-> ThresholdLines \cup FieldLines,
   coins |-> {CoinDraw(0, 0, FALSE)},
   layouts |-> {Layout(CornerObstacle, CornerObstacle, CornerObstacle)},
   serOpen |-> {TRUE},
   backlogs |-> {<<>>},
   reader_at |-> {"loop"}]

\* A device that sends a tilt with the button pressed, and lines that do
\* not parse: one with text for its second field, whose other fields would
\* tilt and switch, and one of two fields.
LinesEnv ==
  [dts |-> {1},
   drifts |-> {0},
   keys |-> {K_RETURN},
   held |-> {{}},
   lines |-> {Line4(AX_POS_THRESHOLD + 1, 0, 0, BTN_PRESSED),
              <<IntTok(AX_NEG_THRESHOLD - 1), TextTok,
                IntTok(SHAKE_THRESHOLD + 1), IntTok(BTN_PRESSED)>>,
              <<IntTok(AX_NEG_THRESHOLD - 1), IntTok(AY_POS_THRESHOLD + 1)>>},
   coins |-> {CoinDraw(0, 0, FALSE)},
   layouts |-> {Layout(CornerObstacle, CornerObstacle, CornerObstacle)},
   serOpen |-> {TRUE},
   backlogs |-> {<<>>},
   reader_at |-> {"loop"}]

\* A port that opens or does not, a device that sends one kind of line, and
\* a player who only closes the window.
StopEnv ==
  [dts |-> {1},
   drifts |-> {0},
   keys |-> {},
   held |-> {{}},
   lines |-> {Line3(0, 0, 0)},
   coins |-> {CoinDraw(0, 0, FALSE)},
   layouts |-> {Layout(CornerObstacle, CornerObstacle, CornerObstacle)},
   serOpen |-> {TRUE, FALSE},
   backlogs |-> {<<>>},
   reader_at |-> {"start"}]

\* A reader that pushes while the main loop is inside get_latest(), into an
\* empty queue and into a full one.
RaceEnv ==
  [dts |-> {1},
   drifts |-> {0},
   keys |-> {},
   held |-> {{}},
   lines |-> {Line3(0, 0, 0)},
   coins |-> {CoinDraw(0, 0, FALSE)},
   layouts |-> {Layout(CornerObstacle, CornerObstacle, CornerObstacle)},
   serOpen |-> {TRUE},
   backlogs |-> {<<>>, Backlog(QUEUE_MAXLEN)},
   reader_at |-> {"loop"}]

FrameStep(E) == frames < MaxFrames /\ \E dt \in E.dts : BeginFrame(dt)
LongFrameStep(E) == frames < MaxKeyFrames /\ \E dt \in E.dts : BeginFrame(dt)
KeyStep(E) == nevents < MaxEvents /\ \E key \in E.keys : KeyDown(key, E)
OneKeyStep(E) == nevents < 1 /\ \E key \in E.keys : KeyDown(key, E)
QuitStep == nevents < MaxEvents /\ Quit
UpdateStep(E) == \E held \in E.held : Update(held, E)
PushStep(E) == pushed < MaxPush /\ \E line \in E.lines : ReaderPush(line)
OnePushStep(E) == pushed < 1 /\ \E line \in E.lines : ReaderPush(line)
FullPushStep(E) ==
  pushed < QUEUE_MAXLEN + MaxPush /\ \E line \in E.lines : ReaderPush(line)

\* The game flow.
Init == InitOf(FlowEnv)
Next ==
  \/ FrameStep(FlowEnv)
  \/ KeyStep(FlowEnv)
  \/ QuitStep
  \/ UpdateStep(FlowEnv)
  \/ Cleanup
  \/ CloseSerial
Spec == Init /\ [][Next]_vars

\* Play with the device.
InitPlay == InitOf(PlayEnv)
NextPlay ==
  \/ FrameStep(PlayEnv)
  \/ OneKeyStep(PlayEnv)
  \/ UpdateStep(PlayEnv)
  \/ PushStep(PlayEnv)
SpecPlay == InitPlay /\ [][NextPlay]_vars

\* Play with the keyboard alone.
InitKeys == InitOf(KeysEnv)
NextKeys ==
  \/ LongFrameStep(KeysEnv)
  \/ OneKeyStep(KeysEnv)
  \/ UpdateStep(KeysEnv)
SpecKeys == InitKeys /\ [][NextKeys]_vars

\* Obstacles closing in on the ball.
InitHit == InitOf(HitEnv)
NextHit ==
  \/ LongFrameStep(HitEnv)
  \/ OneKeyStep(HitEnv)
  \/ UpdateStep(HitEnv)
SpecHit == InitHit /\ [][NextHit]_vars

\* The reader filling the queue.
InitFifo == InitOf(FifoEnv)
NextFifo ==
  \/ FrameStep(FifoEnv)
  \/ UpdateStep(FifoEnv)
  \/ FullPushStep(FifoEnv)
SpecFifo == InitFifo /\ [][NextFifo]_vars

\* One line from the device.
InitSamples == InitOf(SamplesEnv)
NextSamples ==
  \/ FrameStep(SamplesEnv)
  \/ UpdateStep(SamplesEnv)
  \/ OnePushStep(SamplesEnv)
SpecSamples == InitSamples /\ [][NextSamples]_vars

\* Lines that parse and lines that do not.
InitLines == InitOf(LinesEnv)
NextLines ==
  \/ FrameStep(LinesEnv)
  \/ OneKeyStep(LinesEnv)
  \/ UpdateStep(LinesEnv)
  \/ PushStep(LinesEnv)
SpecLines == InitLines /\ [][NextLines]_vars

\* One step of the reader thread; a read attempt returns a line while the
\* bound on pushes allows, and the empty line always.
ReaderStep(E) ==
  \/ ReaderStart
  \/ ReaderTest
  \/ ReaderPoll
  \/ \E line \in {<<>>} \cup (IF pushed < MaxPush THEN E.lines ELSE {}) :
       ReaderRead(line)
  \/ ReaderReadFails
  \/ ReaderSleep
  \/ ReaderError

\* The main loop and the reader thread, step by step, up to stop().  The
\* reader thread keeps being scheduled and close() returns.
InitStop == InitOf(StopEnv)
NextStop ==
  \/ FrameStep(StopEnv)
  \/ QuitStep
  \/ UpdateStep(StopEnv)
  \/ Cleanup
  \/ CloseSerial
  \/ ReaderStep(StopEnv)
SpecStop ==
  /\ InitStop
  /\ [][NextStop]_vars
  /\ WF_vars(ReaderStep(StopEnv))
  /\ WF_vars(CloseSerial)

UpdateTestedStep(E) == \E held \in E.held : UpdateTested(held, E)

\* At most MaxPush pushes on top of the backlog the run began with.
BacklogPushStep(E) ==
  /\ \E bl \in E.backlogs : Len(bl) <= pushed /\ pushed < Len(bl) + MaxPush
  /\ \E line \in E.lines : ReaderPush(line)

\* get_latest() in its two steps, the reader's push at any point between.
InitRace == InitOf(RaceEnv)
NextRace ==
  \/ FrameStep(RaceEnv)
  \/ TestQueue
  \/ UpdateTestedStep(RaceEnv)
  \/ BacklogPushStep(RaceEnv)
SpecRace == InitRace /\ [][NextRace]_vars

(***************************************************************************)
(* Properties.                                                             *)
(***************************************************************************)
IsKeyDown == last'.op = "KeyDown" /\ nevents' = nevents + 1
IsUpdate == pc \in {"events", "pop", "skip"} /\ pc' = "idle"
PlayTickDone == last.op = "Update" /\ last.from = STATE_PLAY

\* The transitions section 4.6 of the specification lists.
ListedTransitions ==
  {<<STATE_MENU, K_RETURN, STATE_PLAY>>,
   <<STATE_PLAY, K_p, STATE_PAUSE>>,
   <<STATE_PLAY, K_ESCAPE, STATE_MENU>>,
   <<STATE_PAUSE, K_p, STATE_PLAY>>,
   <<STATE_PAUSE, K_ESCAPE, STATE_MENU>>,
   <<STATE_GAMEOVER, K_RETURN, STATE_PLAY>>,
   <<STATE_GAMEOVER, K_ESCAPE, STATE_MENU>>}
Listed(st, key) == {t \in ListedTransitions : t[1] = st /\ t[2] = key}

C1_Step ==
  /\ IsKeyDown =>
       IF Listed(state, last'.key) = {}
       THEN state' = state
       ELSE \A t \in Listed(state, last'.key) : state' = t[3]
  /\ IsUpdate =>
       state' = state \/ (state = STATE_PLAY /\ state' = STATE_GAMEOVER)
  /\ (~IsKeyDown /\ ~IsUpdate) => state' = state

\* C1: the game state starts as Menu and changes only by the listed
\* transitions: a key event moves it as the list says and any other
\* (state, key) pair leaves it alone; GameOver is entered only from Play, by
\* the frame's update, never by an input.
C1_StateMachine == state = STATE_MENU /\ [][C1_Step]_vars

C1_Witness == last = Step("KeyDown", STATE_GAMEOVER, K_ESCAPE) /\ state = STATE_MENU

InScreen(o) == 0 <= o.x /\ o.x + o.w <= WIDTH /\ 0 <= o.y /\ o.y + o.h <= HEIGHT
CoinInScreen ==
  /\ COIN_RADIUS <= coin_x /\ coin_x <= WIDTH - COIN_RADIUS
  /\ COIN_RADIUS <= coin_y /\ coin_y <= HEIGHT - COIN_RADIUS
RoundJustStarted ==
  last.op = "KeyDown" /\ last.key = K_RETURN
  /\ last.from \in {STATE_MENU, STATE_GAMEOVER}

\* C2: right after the confirm key in Menu or GameOver the game is in Play
\* with a fresh round: score 0, exactly OBSTACLE_COUNT obstacles, each
\* inside the screen, the coin inside the screen, the ball at the centre,
\* the power-up inactive and start_time the time of the transition
\* (time.time() at line 227, which wall holds).
C2_FreshRound ==
  RoundJustStarted =>
    /\ state = STATE_PLAY
    /\ score = 0
    /\ DOMAIN obstacles = 1..OBSTACLE_COUNT
    /\ \A i \in DOMAIN obstacles : InScreen(obstacles[i])
    /\ CoinInScreen
    /\ ball_x = WIDTH \div 2 /\ ball_y = HEIGHT \div 2
    /\ ~power_active
    /\ start_time = wall

\* A round started from GameOver after a round that collected a special coin.
C2_Witness ==
  /\ last = Step("KeyDown", STATE_GAMEOVER, K_RETURN)
  /\ state = STATE_PLAY
  /\ radius[0] = BALL_RADIUS + POWER_RADIUS_BONUS

\* C3: every line get_latest() returns is the line pushed last, and the
\* lines it returns come in the order they were pushed: none is older than
\* one returned before it.
C3_LatestWins ==
  /\ \A i \in DOMAIN delivered : delivered[i].id = delivered[i].newest
  /\ \A i, j \in DOMAIN delivered : i < j => delivered[i].id < delivered[j].id

\* C4: whenever the power-up is not active, the current character has the
\* base radius.
C4_BaseRadiusWhenInactive == ~power_active => radius[current_char] = BALL_RADIUS

\* C5: at the end of every tick played, the ball with the current
\* character's radius lies inside the screen.
C5_BallInScreen ==
  PlayTickDone =>
    /\ radius[current_char] <= ball_x
    /\ ball_x <= WIDTH - radius[current_char]
    /\ radius[current_char] <= ball_y
    /\ ball_y <= HEIGHT - radius[current_char]

\* The distance from the ball centre to the nearest point of the rectangle
\* is below the ball's radius.
Nearest(v, lo, hi) == IF v < lo THEN lo ELSE IF v > hi THEN hi ELSE v
TrueCollision(o) ==
  Sq(ball_x - Nearest(ball_x, o.x, o.x + o.w))
    + Sq(ball_y - Nearest(ball_y, o.y, o.y + o.h))
  < Sq(radius[current_char])
AnyTrueCollision == \E i \in DOMAIN obstacles : TrueCollision(obstacles[i])

C6_Step ==
  (IsUpdate /\ state = STATE_PLAY) =>
    (state' = STATE_GAMEOVER
       <=> (AnyTrueCollision' \/ now - start_time >= GAME_DURATION))

\* C6: a tick played (the update of a frame whose state is Play) leaves the
\* state GameOver if and only if the ball then truly collides with an
\* obstacle or the round has lasted GAME_DURATION; so no tick played ends
\* in Play with the duration reached.
C6_RoundEnds == [][C6_Step]_vars

\* A round ended by the timer alone.
C6_Witness ==
  /\ PlayTickDone
  /\ state = STATE_GAMEOVER
  /\ ~AnyTrueCollision
  /\ now - start_time >= GAME_DURATION

C7_Step ==
  /\ (IsKeyDown /\ last'.key = K_p) =>
       UNCHANGED <<start_time, power_ends_at, power_active>>
  /\ (IsUpdate /\ state = STATE_PAUSE) =>
       UNCHANGED <<start_time, power_ends_at, power_active>>
  /\ (IsUpdate /\ state = STATE_PLAY) =>
       /\ (now - start_time >= GAME_DURATION => state' = STATE_GAMEOVER)
       /\ (power_active' => now < power_ends_at')

\* C7: the pause key and the frames spent paused leave start_time and the
\* power-up's state and deadline alone, and every tick played, the first
\* after a resume included, ends the round when now - start_time has
\* reached GAME_DURATION and leaves no power-up active whose deadline has
\* been reached.
C7_PauseKeepsDeadlines == [][C7_Step]_vars

\* Just resumed, with both deadlines passed while the game was paused.
C7_Witness ==
  /\ last = Step("KeyDown", STATE_PAUSE, K_p)
  /\ state = STATE_PLAY
  /\ power_active /\ now >= power_ends_at
  /\ now - start_time >= GAME_DURATION

C8_Step ==
  /\ current_char' # current_char =>
       /\ IsUpdate
       /\ now - last_switch > SWITCH_DEBOUNCE
       /\ current_char' = (current_char + 1) % NUM_CHARACTERS
       /\ last_switch' = now
  /\ current_char' = current_char => last_switch' = last_switch
C8_Gaps ==
  \A i \in 1..(Len(switch_times) - 1) :
    switch_times[i + 1] - switch_times[i] > SWITCH_DEBOUNCE

C9_DeltaBound ==
  PlayTickDone =>
    /\ Abs(move_dx) <= 2 * BALL_SPEED
    /\ Abs(move_dy) <= 2 * BALL_SPEED

C10_Step ==
  /\ (IsUpdate /\ state = STATE_PLAY) =>
       LET r == radius[current_char']
           near == Sq(ball_x' - coin_x) + Sq(ball_y' - coin_y)
                     < Sq(r + COIN_RADIUS)
       IN  /\ (near /\ ~coin_special) =>
                /\ score' = score + 1
                /\ power_ends_at' = power_ends_at
                /\ power_active' = (power_active /\ now < power_ends_at)
           /\ (near /\ coin_special) =>
                /\ score' = score + 5
                /\ power_active'
                /\ power_ends_at' = now + POWERUP_DURATION
                /\ radius'[current_char'] = BALL_RADIUS + 8
           /\ near => CoinInScreen'
           /\ ~near => UNCHANGED <<score, coin_x, coin_y, coin_special>>
  /\ ~(IsUpdate /\ state = STATE_PLAY) =>
       \/ score' = score
       \/ (IsKeyDown /\ last'.key = K_RETURN /\ score' = 0)

\* C10: in a tick played the coin is collected exactly when the ball centre
\* is nearer to it than the current radius plus COIN_RADIUS.  An ordinary
\* coin gives 1 point and leaves the power-up as it is (only the tick's own
\* timeout check can end it); a special coin gives 5 points, makes the
\* power-up active until now + POWERUP_DURATION and the current radius
\* BALL_RADIUS + 8, also when a power-up was active; the new coin lies
\* inside the screen; nothing else changes the score within a round.
C10_CoinPickup == [][C10_Step]_vars

\* A second special coin collected while the power-up was active.
C10_Witness ==
  /\ PlayTickDone
  /\ score = 2 * SPECIAL_SCORE
  /\ power_active
  /\ power_ends_at = now + POWERUP_DURATION
  /\ radius[current_char] = BALL_RADIUS + POWER_RADIUS_BONUS

AllBaseRadius(rad) == \A c \in DOMAIN rad : rad[c] = BALL_RADIUS

C11_Step ==
  /\ (IsUpdate /\ state = STATE_PLAY /\ power_active /\ ~power_active') =>
       AllBaseRadius(radius')
  /\ (~power_active /\ ~power_active' /\ AllBaseRadius(radius)) =>
       AllBaseRadius(radius')

\* C11: the tick played in which a power-up expires leaves every character
\* with the base radius, and they all keep it, tick after tick, while no
\* power-up is active.
C11_ExpiryRestoresAll == [][C11_Step]_vars

\* The broad phase of lines 359-364 keeps every obstacle the narrow phase
\* of lines 367-370 would report.
C12_BroadKeeps ==
  PlayTickDone =>
    \A i \in DOMAIN obstacles :
      NarrowHit(ball_x, ball_y, radius[current_char], obstacles[i])
        => ~BroadReject(ball_x, ball_y, radius[current_char], obstacles[i])

C12_Step ==
  (IsUpdate /\ state = STATE_PLAY /\ AnyTrueCollision') =>
    state' = STATE_GAMEOVER

\* C12: a tick played that ends with the ball centre nearer than the radius
\* to the closest point of some obstacle's rectangle ends in GameOver, and
\* the broad phase never rejects an obstacle the narrow phase would report.
C12_CollisionFatal == []C12_BroadKeeps /\ [][C12_Step]_vars

\* A fatal collision with a corner of the rectangle, the round's time not up.
C12_Witness ==
  /\ PlayTickDone
  /\ state = STATE_GAMEOVER
  /\ now - start_time < GAME_DURATION
  /\ \E i \in DOMAIN obstacles :
       LET o == obstacles[i]
       IN  /\ TrueCollision(o)
           /\ (ball_x < o.x \/ ball_x > o.x + o.w)
           /\ (ball_y < o.y \/ ball_y > o.y + o.h)

AllInScreen == \A i \in DOMAIN obstacles : InScreen(obstacles[i])

\* What Obstacle.update is to make of obstacle o, n being what it made: the
\* rectangle moved by the velocity (rect.x, an integer, takes the sum
\* truncated) is outside the screen on an axis exactly when that axis's
\* velocity is reversed, once; otherwise the rectangle is where the move
\* put it.
Bounced(o, n) ==
  LET mx == TruncTenths(10 * o.x + o.vx)
      my == TruncTenths(10 * o.y + o.vy)
      outx == mx < 0 \/ mx + o.w > WIDTH
      outy == my < 0 \/ my + o.h > HEIGHT
  IN  /\ InScreen(n)
      /\ n.w = o.w /\ n.h = o.h
      /\ n.vx = (IF outx THEN -o.vx ELSE o.vx)
      /\ n.vy = (IF outy THEN -o.vy ELSE o.vy)
      /\ ~outx => n.x = mx
      /\ ~outy => n.y = my
      /\ mx < 0 => (n.x >= 0 /\ n.vx > 0)

C13_Step ==
  (IsUpdate /\ state = STATE_PLAY) =>
    /\ DOMAIN obstacles' = DOMAIN obstacles
    /\ \A i \in DOMAIN obstacles : Bounced(obstacles[i], obstacles'[i])

\* C13: every obstacle is inside the screen at all times, and an update
\* reverses the velocity of exactly the axes on which the moved rectangle
\* is outside the screen, once, leaving the other axis's velocity alone
\* (an obstacle at the left edge moving left ends with x >= 0 and vx > 0).
C13_ObstaclesStayInside == []AllInScreen /\ [][C13_Step]_vars

\* An obstacle that has just bounced off the left edge, away from the top
\* and the bottom, still moving down.
C13_Witness ==
  /\ PlayTickDone
  /\ \E i \in DOMAIN obstacles :
       /\ obstacles[i].x = 0 /\ obstacles[i].vx > 0
       /\ obstacles[i].y > 0 /\ obstacles[i].y + obstacles[i].h < HEIGHT
       /\ obstacles[i].vy > 0

IsPush == pushed' = pushed + 1
QueueIds == {queue[k].id : k \in DOMAIN queue}
DeliveredIds == {delivered[k].id : k \in DOMAIN delivered}
\* The lines pushed that left the queue without get_latest() returning them.
Evicted == {i \in 1..pushed : i \notin QueueIds /\ i \notin DeliveredIds}

C14_Step ==
  /\ IsPush =>
       /\ queue'[Len(queue')].id = pushed'
       /\ Len(queue) < QUEUE_MAXLEN =>
            /\ Len(queue') = Len(queue) + 1
            /\ SubSeq(queue', 1, Len(queue)) = queue
            /\ Evicted' = Evicted
       /\ Len(queue) = QUEUE_MAXLEN =>
            /\ Len(queue') = QUEUE_MAXLEN
            /\ SubSeq(queue', 1, QUEUE_MAXLEN - 1) = Tail(queue)
            /\ Evicted' = Evicted \cup {queue[1].id}
  /\ ~IsPush => Evicted' = Evicted
  /\ Len(delivered') > Len(delivered) =>
       delivered'[Len(delivered')].id \notin Evicted

\* C14: the queue never holds more than QUEUE_MAXLEN lines; a push onto a
\* full queue drops the oldest line and keeps the others, the new line
\* last; a line dropped that way is never in the queue again and never
\* returned by get_latest().
C14_BoundedFifo == [](Len(queue) <= QUEUE_MAXLEN) /\ [][C14_Step]_vars

\* get_latest() has returned a line after more than QUEUE_MAXLEN pushes, the
\* first line having been dropped.
C14_Witness ==
  /\ 1 \in Evicted
  /\ Len(delivered) > 0
  /\ delivered[Len(delivered)].newest > QUEUE_MAXLEN

\* The frame's update has consumed a line.
LineConsumed == pc = "idle" /\ sample # <<>>

\* C15: after a valid sample, no arrow key held, the horizontal delta is
\* +BALL_SPEED exactly when ax is above AX_POS_THRESHOLD, -BALL_SPEED exactly
\* when ax is below AX_NEG_THRESHOLD and 0 otherwise, equality included; the
\* vertical delta is -BALL_SPEED exactly when ay is above AY_POS_THRESHOLD,
\* +BALL_SPEED exactly when ay is below AY_NEG_THRESHOLD and 0 otherwise.
C15_StrictThresholds ==
  (LineConsumed /\ parse_serial_line(sample[1]).ok) =>
    LET ax == parse_serial_line(sample[1]).ax
        ay == parse_serial_line(sample[1]).ay
    IN  /\ move_dx = (IF ax > AX_POS_THRESHOLD THEN BALL_SPEED
                      ELSE IF ax < AX_NEG_THRESHOLD THEN -BALL_SPEED ELSE 0)
        /\ move_dy = (IF ay > AY_POS_THRESHOLD THEN -BALL_SPEED
                      ELSE IF ay < AY_NEG_THRESHOLD THEN BALL_SPEED ELSE 0)

\* A sample with ax on the positive threshold and ay just below the
\* negative one.
C15_Witness ==
  /\ LineConsumed
  /\ sample[1] = Line3(AX_POS_THRESHOLD, AY_NEG_THRESHOLD - 1, 0)
  /\ move_dx = 0
  /\ move_dy = BALL_SPEED

Fields(line) == SelectSeq(line, LAMBDA t : t.kind # "blank")
IsInt(t) == t.kind = "int"
FirstFour(toks) == SubSeq(toks, 1, Min(4, Len(toks)))

\* C16: for the line consumed, its blank fields left out, parse_serial_line
\* gives no result exactly when fewer than three fields remain or one of
\* the first three is no integer; otherwise ax, ay, az are the first three
\* fields, btn is the fourth when there is one and it is an integer, and
\* absent otherwise; the fields after the fourth change nothing.
C16_Parse ==
  LineConsumed =>
    LET toks == Fields(sample[1])
        res == parse_serial_line(sample[1])
        fails == \/ Len(toks) < 3
                 \/ \E i \in 1..Min(3, Len(toks)) : ~IsInt(toks[i])
    IN  /\ res.ok = ~fails
        /\ res.ok =>
             /\ res.ax = toks[1].val
             /\ res.ay = toks[2].val
             /\ res.az = toks[3].val
             /\ res.has_btn = (Len(toks) >= 4 /\ IsInt(toks[4]))
             /\ res.has_btn => res.btn = toks[4].val
        /\ res = parse_serial_line(FirstFour(toks))

\* A line with a blank field, a fourth field that is no integer and a fifth
\* field was parsed, without a button, and moved the ball's delta.
C16_Witness ==
  /\ LineConsumed
  /\ Len(Fields(sample[1])) < Len(sample[1])
  /\ Len(Fields(sample[1])) >= 5
  /\ ~IsInt(Fields(sample[1])[4])
  /\ parse_serial_line(sample[1]).ok
  /\ ~parse_serial_line(sample[1]).has_btn
  /\ move_dx = BALL_SPEED

\* The update of a frame that consumes a line which does not parse.
MalformedTick ==
  IsUpdate /\ sample' # <<>> /\ ~parse_serial_line(sample'[1]).ok

C17_Step ==
  MalformedTick =>
    /\ move_dx' = move_dx
    /\ move_dy' = move_dy
    /\ current_char' = current_char
    /\ last_switch' = last_switch
    /\ pc' = "idle"
    /\ running' = running
    /\ IF state = STATE_PLAY
       THEN PlayTick(current_char, move_dx, move_dy, LinesEnv)
       ELSE UNCHANGED <<round, radius, state>>

\* C17: a frame whose line does not parse leaves the deltas, the current
\* character and the last-switch time as they were (no arrow key held),
\* goes on to the next frame, and does to the round what a tick played with
\* the deltas and the character of the frame before does; outside Play it
\* leaves the round alone.
C17_MalformedIgnored == [][C17_Step]_vars

\* A line that does not parse consumed in a tick played, after a sample that
\* had set a delta and switched the character.
C17_Witness ==
  /\ PlayTickDone
  /\ sample # <<>>
  /\ ~parse_serial_line(sample[1]).ok
  /\ move_dx = BALL_SPEED
  /\ current_char = 1
  /\ ball_x > WIDTH \div 2

\* Without a connection the reader has pushed nothing and no line was ever
\* handed to the main loop; once stop() has returned the flag is cleared.
C18_Safe ==
  /\ ~ser_open => (pushed = 0 /\ queue = <<>> /\ delivered = <<>>)
  /\ ~ser_open => rpc \in {"start", "done"}
  /\ pc \in {"closing", "exited"} => ~reader_running
  /\ pc # "crashed"

\* C18: stop() returns, with or without a connection; once it has cleared
\* the flag the reader leaves its loop, also when it was in a read or in
\* the error branch; without a connection nothing is ever pushed and
\* get_latest() never returns a line.
C18_StopWorks ==
  /\ []C18_Safe
  /\ (pc = "closing") ~> (pc = "exited")
  /\ (~reader_running) ~> (rpc = "done")
  /\ [](rpc = "done" => [](rpc = "done"))

\* stop() has cleared the flag and closed the port while the reader was in
\* a read.
C18_Witness ==
  /\ pc = "exited"
  /\ ser_closed
  /\ ~reader_running
  /\ rpc = "read"

\* What the claim calls gameplay: ball, coin, obstacles, score and power-up.
Gameplay == <<ball_x, ball_y, coin_x, coin_y, coin_special, obstacles, score,
              power_active, power_ends_at>>

C19_Step ==
  /\ (IsUpdate /\ state \in {STATE_MENU, STATE_PAUSE, STATE_GAMEOVER}) =>
       (UNCHANGED Gameplay /\ state' = state)
  /\ state = STATE_PAUSE => UNCHANGED <<Gameplay, start_time>>
  /\ (state = STATE_GAMEOVER /\ state' = STATE_GAMEOVER) => UNCHANGED Gameplay

\* C19: the update of a frame in Menu, Pause or GameOver leaves ball, coin,
\* obstacles, score, power_active and power_ends_at as they were; no step
\* taken in Pause changes them or the round's start time, so that the round
\* resumed is the round paused; and the score stays what it was at the end
\* of the round for as long as the state is GameOver.
C19_FrozenOutsidePlay == [][C19_Step]_vars

\* A frame updated in Pause, of a round with a coin collected, the power-up
\* running and obstacles that move.
C19_Witness ==
  /\ last = Step("Update", STATE_PAUSE, "")
  /\ state = STATE_PAUSE
  /\ score > 0
  /\ power_active
  /\ \E i \in DOMAIN obstacles : obstacles[i].vx # 0

\* get_latest() pops only from a queue that holds a line, every line it
\* has returned carries the number of a push made before, and no number
\* was returned twice.
C20_Safe ==
  /\ pc # "crashed"
  /\ pc = "pop" => Len(queue) > 0
  /\ \A i \in DOMAIN delivered :
       /\ delivered[i].id \in 1..delivered[i].newest
       /\ delivered[i].newest <= pushed
  /\ \A i, j \in DOMAIN delivered : i # j => delivered[i].id # delivered[j].id
  /\ \A i \in DOMAIN delivered, k \in DOMAIN queue :
       delivered[i].id # queue[k].id

\* What get_latest() returns is the newest entry of the queue at the pop,
\* and the pop takes that entry alone.
C20_Step ==
  (pc = "pop" /\ pc' = "idle") =>
    /\ queue # <<>>
    /\ sample' = <<queue[Len(queue)].line>>
    /\ delivered' = Append(delivered,
                           [id |-> queue[Len(queue)].id, newest |-> pushed])
    /\ queue' = SubSeq(queue, 1, Len(queue) - 1)

\* C20: with the reader's push taken at any point between the test of the
\* queue and the pop, get_latest() never pops from an empty queue, returns
\* only lines the reader pushed, and returns no line twice.
C20_QueueSafe == []C20_Safe /\ [][C20_Step]_vars

\* The line returned was pushed after the test, into a full queue, whose
\* oldest line it evicted.
C20_Witness ==
  /\ pc = "idle"
  /\ delivered # <<>>
  /\ delivered[Len(delivered)].id > tested
  /\ tested >= QUEUE_MAXLEN
  /\ Len(queue) = QUEUE_MAXLEN - 1

====
